---- MODULE Spec2Model ----
(***************************************************************************)
(* Model of app/main.py: a Slack bot that relays bot-addressed threads to  *)
(* a chat-completion endpoint.  The chat platform (message store, thread   *)
(* lookup, event delivery) and the completion provider are the             *)
(* environment; the handler run_completion and its helpers are translated  *)
(* statement by statement.  Handler runs are interleaved at the            *)
(* granularity of their external calls, since slack_bolt dispatches        *)
(* listeners concurrently.                                                 *)
(***************************************************************************)
EXTENDS Integers, Sequences, FiniteSets, TLC

\* ------------------------------------------------------------------ bounds
\* Activity of a behaviour: the messages humans post plus the events whose
\* handler invocation the model follows.
MaxEvents == 4
\* Number of external calls that raise during a behaviour.
MaxFails == 1
\* Number of pieces an input string of delete_prefix is made of.
MaxPieces == 3

\* ------------------------------------------------------- configuration
\* main.py:10  BOT_NAME, as a user identifier and as the characters it
\* contributes to the mention token.
BOT_NAME == "B"
\* main.py:11  BOT_MENTION = f'<@{BOT_NAME}>'
BOT_MENTION == <<"<", "@", "B", ">">>
\* main.py:12  the fixed system prompt (its wording is immaterial).
SYSTEM_PROMPT == <<"S">>
\* main.py:114  text of the placeholder status message.
GENERATING == <<"g">>

\* Human authors and what they write.
Humans == {"U1"}
MentionText == BOT_MENTION \o <<" ", "h", " ", "p">>
PlainText == <<"m", " ", "n">>
Texts == {MentionText, PlainText}
\* What the completion provider may answer.
Answers == {<<"a">>}

\* "no timestamp": a key absent from an event, or a local not yet assigned.
NoTs == 0

\* ------------------------------------------------------- string helpers
\* str.replace(pat, ''): non-overlapping occurrences removed left to right.
RECURSIVE Replace(_, _)
Replace(s, pat) ==
    IF Len(s) < Len(pat) THEN s
    ELSE IF SubSeq(s, 1, Len(pat)) = pat
         THEN Replace(SubSeq(s, Len(pat) + 1, Len(s)), pat)
         ELSE <<Head(s)>> \o Replace(Tail(s), pat)

\* str.startswith(prefix) for a one-character prefix.
StartsWith(s, c) == Len(s) > 0 /\ Head(s) = c

\* `pat in s`.
RECURSIVE Contains(_, _)
Contains(s, pat) ==
    IF Len(s) < Len(pat) THEN FALSE
    ELSE IF SubSeq(s, 1, Len(pat)) = pat THEN TRUE
         ELSE Contains(Tail(s), pat)

\* Input strings of delete_prefix: up to MaxPieces pieces, each the mention
\* token, one half of it, a space, a newline or another character.
Pieces == {BOT_MENTION, <<"<", "@">>, <<"B", ">">>, <<" ">>, <<"\n">>, <<"x">>}

RECURSIVE Concat(_)
Concat(ps) == IF ps = <<>> THEN <<>> ELSE Head(ps) \o Concat(Tail(ps))

Inputs ==
    {Concat(ps) : ps \in UNION {[1..n -> Pieces] : n \in 0..MaxPieces}}

\* main.py:15-33
RECURSIVE delete_prefix(_)
delete_prefix(message) ==
    LET m == Replace(message, BOT_MENTION) IN
    IF StartsWith(m, " ") THEN delete_prefix(Replace(m, <<" ">>))
    ELSE IF StartsWith(m, "\n") THEN delete_prefix(Replace(m, <<"\n">>))
         ELSE m

\* ------------------------------------------------------------------ state
VARIABLES
    chat,       \* the channel: messages in timestamp order
    nextTs,     \* next message timestamp the platform assigns
    posts,      \* how many messages humans have posted
    runs,       \* one record per delivered event: the handler invocation
    requests,   \* completion requests issued so far
    fails,      \* how many external calls have raised
    lookup,     \* what the platform returns for a lookup by a reply's ts
    mentions,   \* ts of the posts whose app_mention event awaits its handler
    dp_input,   \* delete_prefix: the string of the outermost call
    dp_message, \* delete_prefix: `message` of the innermost call, then the result
    dp_depth,   \* delete_prefix: number of recursive calls made
    dp_pc       \* delete_prefix: "off", "call" (in a call) or "done" (returned)

dpVars == <<dp_input, dp_message, dp_depth, dp_pc>>

sysVars == <<chat, nextTs, posts, runs, requests, fails, lookup, mentions>>

vars == <<chat, nextTs, posts, runs, requests, fails, lookup, mentions,
          dp_input, dp_message, dp_depth, dp_pc>>

\* ------------------------------------------------- chat platform (environment)
Msg(ts, root, user, text) ==
    [ts |-> ts, thread_ts |-> root, user |-> user, text |-> text]

Exists(c, ts) == \E i \in 1..Len(c) : c[i].ts = ts

MsgAt(c, ts) == c[CHOOSE i \in 1..Len(c) : c[i].ts = ts]

\* Timestamps of the top-level messages, the ones a human can reply under.
Roots(c) == {c[i].ts : i \in {j \in 1..Len(c) : c[j].thread_ts = c[j].ts}}

\* conversations.replies(channel, ts): the message ts with its replies.  For
\* the ts of a reply the platform answers either with that message alone
\* (it has no replies of its own) or with the thread it belongs to.  The
\* call raises (thread_not_found) when no message has that ts; callers test
\* Exists first.
ThreadKey(c, ts) ==
    IF lookup = "thread" THEN MsgAt(c, ts).thread_ts ELSE ts

conversations_replies(c, ts) ==
    LET k == ThreadKey(c, ts)
        In(m) == m.ts = k \/ m.thread_ts = k
    IN SelectSeq(c, In)

\* chat.delete(channel, ts)
RECURSIVE chat_delete(_, _)
chat_delete(c, ts) ==
    IF c = <<>> THEN <<>>
    ELSE IF Head(c).ts = ts THEN Tail(c)
         ELSE <<Head(c)>> \o chat_delete(Tail(c), ts)

\* ------------------------------------------------------------------ events
Event(ts, root, user, subtype, cause) ==
    [ts |-> ts, thread_ts |-> root, user |-> user, subtype |-> subtype,
     cause |-> cause]

\* event.get('thread_ts', event['ts'])   main.py:57, main.py:81
EventRoot(ev) == IF ev.thread_ts = NoTs THEN ev.ts ELSE ev.thread_ts

\* A handler invocation that has not executed a statement yet.  arrival is
\* the event's thread as it stood when the event was raised.
NewRun(ev, c) ==
    [ev |-> ev, pc |-> "start", fired |-> "none",
     thread_ts |-> NoTs, tmp_ts |-> NoTs, messages |-> <<>>,
     assistant_message |-> <<>>, log |-> <<>>, failedAt |-> "none",
     arrival |-> conversations_replies(c, EventRoot(ev))]

\* The platform raises an event.  The model follows the handling of the
\* events it chooses (follow), as far as the activity bound allows; an event
\* it does not follow is one whose handler never gets to run.
Deliver(rs, ev, c, follow, humanPosts) ==
    IF follow /\ humanPosts + Len(rs) < MaxEvents
    THEN Append(rs, NewRun(ev, c))
    ELSE rs

\* ------------------------------------------------------------ pure helpers
\* Variant: the two conditions joined by `or`.
should_run_completion_or(ev, c) ==
    IF ev.subtype = "message_changed" THEN FALSE
    ELSE LET thread == conversations_replies(c, EventRoot(ev))
         IN Contains(thread[1].text, BOT_MENTION)
            \/ thread[Len(thread)].user # BOT_NAME

\* Variant: the subtype test of main.py:50-51 left out.
should_run_completion_noedit(ev, c) ==
    Exists(c, EventRoot(ev))
    /\ LET thread == conversations_replies(c, EventRoot(ev))
       IN Contains(thread[1].text, BOT_MENTION)
          /\ thread[Len(thread)].user # BOT_NAME

\* main.py:36-65, given the channel the thread is fetched from.
should_run_completion(ev, c) ==
    IF ev.subtype = "message_changed" THEN FALSE
    ELSE LET thread == conversations_replies(c, EventRoot(ev))
             origin_message == thread[1].text
             last_speaker == thread[Len(thread)].user
         IN IF Contains(origin_message, BOT_MENTION) /\ last_speaker # BOT_NAME
            THEN TRUE
            ELSE FALSE

\* Variant: the role test inverted.
create_messages_swapped(thread) ==
    <<[role |-> "system", content |-> SYSTEM_PROMPT]>> \o
    [i \in 1..Len(thread) |->
        [role |-> IF thread[i].user = BOT_NAME THEN "user" ELSE "assistant",
         content |-> delete_prefix(thread[i].text)]]

\* main.py:83-92, given the thread fetched at main.py:79-82.
create_messages(thread) ==
    <<[role |-> "system", content |-> SYSTEM_PROMPT]>> \o
    [i \in 1..Len(thread) |->
        [role |-> IF thread[i].user = BOT_NAME THEN "assistant" ELSE "user",
         content |-> delete_prefix(thread[i].text)]]

\* ------------------------------------------------------------------ Init
Init ==
    /\ chat = <<>>
    /\ nextTs = 1
    /\ posts = 0
    /\ runs = <<>>
    /\ requests = <<>>
    /\ fails = 0
    /\ lookup \in {"message", "thread"}
    /\ mentions = {}
    /\ dp_input = <<>>
    /\ dp_message = <<>>
    /\ dp_depth = 0
    /\ dp_pc = "off"

\* ------------------------------------------------------------ environment
\* A human posts text, top-level (root = NoTs) or as a reply under a
\* top-level message.  The platform raises a message event for it; the
\* event of a top-level post carries no thread_ts.
HumanPost(u, text, root, follow) ==
    /\ posts + Len(runs) < MaxEvents
    /\ root = NoTs \/ root \in Roots(chat)
    /\ LET ts == nextTs
           c == Append(chat, Msg(ts, IF root = NoTs THEN ts ELSE root, u, text))
       IN /\ chat' = c
          /\ runs' = Deliver(runs, Event(ts, root, u, "none", "human"), c, follow,
                             posts + 1)
    /\ nextTs' = nextTs + 1
    /\ posts' = posts + 1
    /\ mentions' = IF Contains(text, BOT_MENTION)
                   THEN mentions \cup {nextTs} ELSE mentions
    /\ UNCHANGED <<requests, fails, lookup, dpVars>>

\* --------------------------------------------- run_completion, step by step
\* An exception leaves the handler at statement `at`.
Raise(r, at) == [runs EXCEPT ![r].pc = "failed", ![r].failedAt = at]

\* Variant: the result of the Trigger Filter is not acted upon.
Filter_ignored(r) ==
    /\ runs[r].pc = "start"
    /\ runs' = [runs EXCEPT
                  ![r].pc = "resolve",
                  ![r].fired = IF should_run_completion(runs[r].ev, chat)
                               THEN "true" ELSE "false"]
    /\ UNCHANGED <<chat, nextTs, posts, requests, fails, lookup, mentions, dpVars>>

\* main.py:103-104  the Trigger Filter.  Its thread lookup (main.py:55-58)
\* raises when the thread's message is gone.
Filter(r) ==
    /\ runs[r].pc = "start"
    /\ LET ev == runs[r].ev
           go == should_run_completion(ev, chat)
       IN runs' = IF ev.subtype # "message_changed"
                     /\ ~Exists(chat, EventRoot(ev))
                  THEN Raise(r, "start")
                  ELSE [runs EXCEPT
                         ![r].pc = IF go THEN "resolve" ELSE "returned",
                         ![r].fired = IF go THEN "true" ELSE "false"]
    /\ UNCHANGED <<chat, nextTs, posts, requests, fails, lookup, mentions, dpVars>>

\* main.py:106-108  thread_ts = first message of the lookup by event['ts'].
Resolve(r) ==
    /\ runs[r].pc = "resolve"
    /\ runs' = IF Exists(chat, runs[r].ev.ts)
               THEN [runs EXCEPT
                      ![r].pc = "post",
                      ![r].thread_ts =
                          conversations_replies(chat, runs[r].ev.ts)[1].ts]
               ELSE Raise(r, "resolve")
    /\ UNCHANGED <<chat, nextTs, posts, requests, fails, lookup, mentions, dpVars>>

\* main.py:111-115  post the placeholder, keep its ts.
PostPlaceholder(r, follow) ==
    /\ runs[r].pc = "post"
    /\ LET ts == nextTs
           c == Append(chat, Msg(ts, runs[r].thread_ts, BOT_NAME, GENERATING))
           rs == [runs EXCEPT ![r].pc = "create", ![r].tmp_ts = ts,
                              ![r].log = Append(@, "post_tmp")]
       IN /\ chat' = c
          /\ runs' = Deliver(rs, Event(ts, runs[r].thread_ts, BOT_NAME, "none",
                                       "placeholder"), c, follow, posts)
    /\ nextTs' = nextTs + 1
    /\ UNCHANGED <<posts, requests, fails, lookup, mentions, dpVars>>

\* main.py:117-121  create_messages(event) fetches the thread and builds the
\* prompt; the completion request leaves with it and the handler blocks.
Request(r) ==
    /\ runs[r].pc = "create"
    /\ LET root == EventRoot(runs[r].ev)
       IN IF Exists(chat, root)
          THEN /\ runs' = [runs EXCEPT
                     ![r].pc = "await",
                     ![r].messages =
                         create_messages(conversations_replies(chat, root)),
                     ![r].log = Append(@, "request")]
               /\ requests' = Append(requests, r)
          ELSE /\ runs' = Raise(r, "create")
               /\ UNCHANGED requests
    /\ UNCHANGED <<chat, nextTs, posts, fails, lookup, mentions, dpVars>>

\* Variant: the placeholder is not deleted once the completion arrives.
Response_skipDelete(r, answer) ==
    /\ runs[r].pc = "await"
    /\ runs' = [runs EXCEPT ![r].pc = "say",
                            ![r].assistant_message = answer,
                            ![r].messages = <<>>,
                            ![r].arrival = <<>>,
                            ![r].log = Append(@, "response")]
    /\ UNCHANGED <<chat, nextTs, posts, requests, fails, lookup, mentions, dpVars>>

\* main.py:118-122  the completion arrives.  messages is not read again.
Response(r, answer) ==
    /\ runs[r].pc = "await"
    /\ runs' = [runs EXCEPT ![r].pc = "delete",
                            ![r].assistant_message = answer,
                            ![r].messages = <<>>,
                            ![r].arrival = <<>>,
                            ![r].log = Append(@, "response")]
    /\ UNCHANGED <<chat, nextTs, posts, requests, fails, lookup, mentions, dpVars>>

\* Variant: the failure is caught and the placeholder cleaned up.
RequestFails_cleanup(r) ==
    /\ runs[r].pc = "await"
    /\ fails < MaxFails
    /\ fails' = fails + 1
    /\ chat' = chat_delete(chat, runs[r].tmp_ts)
    /\ runs' = Raise(r, "await")
    /\ UNCHANGED <<nextTs, posts, requests, lookup, mentions, dpVars>>

\* main.py:118  the completion request raises; nothing catches it.
RequestFails(r) ==
    /\ runs[r].pc = "await"
    /\ fails < MaxFails
    /\ fails' = fails + 1
    /\ runs' = Raise(r, "await")
    /\ UNCHANGED <<chat, nextTs, posts, requests, lookup, mentions, dpVars>>

\* Variant: the placeholder is deleted without waiting for the completion.
DeletePlaceholder_early(r, follow) ==
    /\ runs[r].pc \in {"await", "delete"}
    /\ LET c == chat_delete(chat, runs[r].tmp_ts)
           rs == [runs EXCEPT ![r].pc = "say", ![r].log = Append(@, "delete")]
       IN /\ chat' = c
          /\ runs' = Deliver(rs, Event(runs[r].tmp_ts, runs[r].thread_ts,
                                       BOT_NAME, "message_changed", "delete"),
                             c, follow, posts)
    /\ UNCHANGED <<nextTs, posts, requests, fails, lookup, mentions, dpVars>>

\* Variant: the ts of the event's message is passed to chat_delete.
DeletePlaceholder_wrongTs(r, follow) ==
    /\ runs[r].pc = "delete"
    /\ LET c == chat_delete(chat, runs[r].ev.ts)
           rs == [runs EXCEPT ![r].pc = "say", ![r].log = Append(@, "delete")]
       IN /\ chat' = c
          /\ runs' = Deliver(rs, Event(runs[r].ev.ts, runs[r].thread_ts,
                                       BOT_NAME, "message_changed", "delete"),
                             c, follow, posts)
    /\ UNCHANGED <<nextTs, posts, requests, fails, lookup, mentions, dpVars>>

\* main.py:125-128  delete the placeholder; the platform raises a
\* message_changed event for the thread (main.py:48).
DeletePlaceholder(r, follow) ==
    /\ runs[r].pc = "delete"
    /\ LET c == chat_delete(chat, runs[r].tmp_ts)
           rs == [runs EXCEPT ![r].pc = "say", ![r].log = Append(@, "delete")]
       IN /\ chat' = c
          /\ runs' = Deliver(rs, Event(runs[r].tmp_ts, runs[r].thread_ts,
                                       BOT_NAME, "message_changed", "delete"),
                             c, follow, posts)
    /\ UNCHANGED <<nextTs, posts, requests, fails, lookup, mentions, dpVars>>

\* main.py:130  say(assistant_message, thread_ts=thread_ts)
Say(r, follow) ==
    /\ runs[r].pc = "say"
    /\ LET ts == nextTs
           c == Append(chat, Msg(ts, runs[r].thread_ts, BOT_NAME,
                                 runs[r].assistant_message))
           rs == [runs EXCEPT ![r].pc = "returned", ![r].log = Append(@, "say")]
       IN /\ chat' = c
          /\ runs' = Deliver(rs, Event(ts, runs[r].thread_ts, BOT_NAME, "none",
                                       "answer"), c, follow, posts)
    /\ nextTs' = nextTs + 1
    /\ UNCHANGED <<posts, requests, fails, lookup, mentions, dpVars>>

\* A chat platform call raises (network, rate limit, ...): the exception
\* leaves the handler at that statement.  main.py has no try/except.
PlatformSteps == {"start", "resolve", "post", "create", "delete", "say"}

\* Variant: a failed delete is swallowed and the handler goes on.
CallFails_swallowed(r) ==
    /\ runs[r].pc \in PlatformSteps
    /\ runs[r].pc = "start" => runs[r].ev.subtype # "message_changed"
    /\ fails < MaxFails
    /\ fails' = fails + 1
    /\ runs' = IF runs[r].pc = "delete"
               THEN [runs EXCEPT ![r].pc = "say", ![r].failedAt = "delete"]
               ELSE Raise(r, runs[r].pc)
    /\ UNCHANGED <<chat, nextTs, posts, requests, lookup, mentions, dpVars>>

CallFails(r) ==
    /\ runs[r].pc \in PlatformSteps
    /\ runs[r].pc = "start" => runs[r].ev.subtype # "message_changed"
    /\ fails < MaxFails
    /\ fails' = fails + 1
    /\ runs' = Raise(r, runs[r].pc)
    /\ UNCHANGED <<chat, nextTs, posts, requests, lookup, mentions, dpVars>>

\* Variant: the app_mention listener runs the message handler as well.
return_nothing_runs(ts) ==
    /\ ts \in mentions
    /\ mentions' = mentions \ {ts}
    /\ runs' = Append(runs,
                      NewRun(Event(ts, NoTs, MsgAt(chat, ts).user, "none",
                                   "human"), chat))
    /\ UNCHANGED <<chat, nextTs, posts, requests, fails, lookup, dpVars>>

\* main.py:133-137  the app_mention listener: return.
return_nothing(ts) ==
    /\ ts \in mentions
    /\ mentions' = mentions \ {ts}
    /\ UNCHANGED <<chat, nextTs, posts, runs, requests, fails, lookup, dpVars>>

Next ==
    \/ \E ts \in mentions : return_nothing(ts)
    \/ \E u \in Humans, text \in Texts, root \in {NoTs} \cup Roots(chat),
          follow \in BOOLEAN : HumanPost(u, text, root, follow)
    \/ \E r \in 1..Len(runs) : Filter(r)
    \/ \E r \in 1..Len(runs) : Resolve(r)
    \/ \E r \in 1..Len(runs), follow \in BOOLEAN : PostPlaceholder(r, follow)
    \/ \E r \in 1..Len(runs) : Request(r)
    \/ \E r \in 1..Len(runs), answer \in Answers : Response(r, answer)
    \/ \E r \in 1..Len(runs) : RequestFails(r)
    \/ \E r \in 1..Len(runs), follow \in BOOLEAN : DeletePlaceholder(r, follow)
    \/ \E r \in 1..Len(runs), follow \in BOOLEAN : Say(r, follow)
    \/ \E r \in 1..Len(runs) : CallFails(r)

Spec == Init /\ [][Next]_vars

\* ------------------------------------------- delete_prefix, call by call
\* main.py:27  message with the mention token removed.
Unmentioned(message) == Replace(message, BOT_MENTION)

\* Variant: the prefix is tested for and not removed.
Strip_none(m, prefix) == m

\* main.py:30  message.replace(prefix, '')
Strip(m, prefix) == Replace(m, <<prefix>>)

\* One delete_prefix call on one input string; the handler is not running.
StrInit ==
    /\ chat = <<>>
    /\ nextTs = 1
    /\ posts = 0
    /\ runs = <<>>
    /\ requests = <<>>
    /\ fails = 0
    /\ lookup = "thread"
    /\ mentions = {}
    /\ dp_input \in Inputs
    /\ dp_message = dp_input
    /\ dp_depth = 0
    /\ dp_pc = "call"

\* main.py:28-32 with prefix ' ': strip it and recurse.
dp_StripSpace ==
    /\ dp_pc = "call"
    /\ StartsWith(Unmentioned(dp_message), " ")
    /\ dp_message' = Strip(Unmentioned(dp_message), " ")
    /\ dp_depth' = dp_depth + 1
    /\ UNCHANGED <<dp_input, dp_pc, sysVars>>

\* main.py:28-32 with prefix '\n': strip it and recurse.
dp_StripNewline ==
    /\ dp_pc = "call"
    /\ ~StartsWith(Unmentioned(dp_message), " ")
    /\ StartsWith(Unmentioned(dp_message), "\n")
    /\ dp_message' = Strip(Unmentioned(dp_message), "\n")
    /\ dp_depth' = dp_depth + 1
    /\ UNCHANGED <<dp_input, dp_pc, sysVars>>

\* main.py:33  no prefix matched: return message, through every caller.
dp_Return ==
    /\ dp_pc = "call"
    /\ ~StartsWith(Unmentioned(dp_message), " ")
    /\ ~StartsWith(Unmentioned(dp_message), "\n")
    /\ dp_message' = Unmentioned(dp_message)
    /\ dp_pc' = "done"
    /\ UNCHANGED <<dp_input, dp_depth, sysVars>>

StrNext ==
    \/ dp_StripSpace
    \/ dp_StripNewline
    \/ dp_Return

\* The interpreter runs the call to its end.
SpecStr == StrInit /\ [][StrNext]_vars /\ WF_vars(StrNext)

\* ================================================================ claims
Edit(r) == runs[r].ev.subtype = "message_changed"

\* The thread of run r's event as the channel holds it now.
ThreadNow(r) == conversations_replies(chat, EventRoot(runs[r].ev))

\* The mention token occurs in text.
Mentions(text) ==
    \E i \in 1..Len(text) :
        /\ i + Len(BOT_MENTION) - 1 <= Len(text)
        /\ \A k \in 1..Len(BOT_MENTION) : text[i + k - 1] = BOT_MENTION[k]

Count(log, e) == Cardinality({i \in 1..Len(log) : log[i] = e})

IsPrefix(a, b) == Len(a) <= Len(b) /\ \A i \in 1..Len(a) : a[i] = b[i]

HappyPath == <<"post_tmp", "request", "response", "delete", "say">>

\* run r executes the Trigger Filter in this step and the filter returns.
FilterReturns(r) ==
    /\ runs[r].pc = "start"
    /\ runs'[r].pc \in {"resolve", "returned"}

\* C1: for an event that is not an edit, should_run_completion returns true
\* exactly when the first message of the event's thread contains the bot
\* mention and the author of the thread's last message is not the bot.
C1_TriggerTruthTable ==
    [][\A r \in 1..Len(runs) :
          (FilterReturns(r) /\ ~Edit(r)) =>
              ((runs'[r].fired = "true" /\ runs'[r].pc = "resolve")
               <=> (/\ Mentions(ThreadNow(r)[1].text)
                    /\ ThreadNow(r)[Len(ThreadNow(r))].user # BOT_NAME))]_vars

\* C1 witness: the filter has returned true for one event and false for
\* another, neither of them an edit.
C1_Witness ==
    \E r1, r2 \in 1..Len(runs) :
        /\ ~Edit(r1) /\ runs[r1].fired = "true"
        /\ ~Edit(r2) /\ runs[r2].fired = "false"

\* C2: for an edit event (message_changed) should_run_completion returns
\* false whatever the thread holds, and the handler then posts nothing,
\* deletes nothing and requests no completion.
C2_EditNeverTriggers ==
    \A r \in 1..Len(runs) :
        Edit(r) =>
            /\ runs[r].pc \in {"start", "returned"}
            /\ runs[r].pc = "returned" => runs[r].fired = "false"
            /\ runs[r].log = <<>>
            /\ r \notin {requests[i] : i \in 1..Len(requests)}

\* C2 witness: the handler has returned on an edit event whose thread opens
\* with a mention of the bot and ends with a human's message.
C2_Witness ==
    \E r \in 1..Len(runs) :
        /\ Edit(r) /\ runs[r].pc = "returned"
        /\ Exists(chat, EventRoot(runs[r].ev))
        /\ Mentions(ThreadNow(r)[1].text)
        /\ ThreadNow(r)[Len(ThreadNow(r))].user # BOT_NAME

\* C3: a triggered run performs its side effects in the order placeholder
\* post, completion request, completion response, placeholder delete, answer
\* post; a run whose calls all succeed has performed all of them.
C3_EffectOrder ==
    \A r \in 1..Len(runs) :
        /\ IsPrefix(runs[r].log, HappyPath)
        /\ (runs[r].fired = "true" /\ runs[r].pc = "returned")
               => runs[r].log = HappyPath

\* C3 witness: a triggered run has posted its answer and returned.
C3_Witness ==
    \E r \in 1..Len(runs) :
        runs[r].fired = "true" /\ runs[r].pc = "returned"
        /\ Count(runs[r].log, "say") = 1

\* C4 (as claimed): the prompt of a completion request in flight is the
\* system message followed by one message per entry of the thread as it
\* stood when the event arrived, so two messages for a thread of one human
\* message, and the run's own placeholder is not among them.
C4_PromptIsArrivalThread ==
    \A r \in 1..Len(runs) :
        runs[r].pc = "await" =>
            /\ runs[r].messages = create_messages(runs[r].arrival)
            /\ (Len(runs[r].arrival) = 1 => Len(runs[r].messages) = 2)

\* C5: create_messages returns the system message followed by one message
\* per thread entry in the thread's order, with role assistant exactly for
\* the bot's entries and user for the others; no later element is a system
\* message.
C5_PromptShape ==
    [][\A r \in 1..Len(runs) :
          (runs[r].pc = "create" /\ runs'[r].pc = "await") =>
              LET th == ThreadNow(r)
                  m == runs'[r].messages
              IN /\ Len(m) = Len(th) + 1
                 /\ m[1] = [role |-> "system", content |-> SYSTEM_PROMPT]
                 /\ \A i \in 1..Len(th) :
                       /\ (m[i + 1].role = "assistant")
                              <=> (th[i].user = BOT_NAME)
                       /\ (m[i + 1].role = "user") <=> (th[i].user # BOT_NAME)
                       /\ m[i + 1].content = delete_prefix(th[i].text)]_vars

\* C5 witness: a request is in flight whose prompt holds a user message and
\* an assistant message.
C5_Witness ==
    \E r \in 1..Len(runs) :
        /\ runs[r].pc = "await"
        /\ \E i, j \in 2..Len(runs[r].messages) :
              /\ runs[r].messages[i].role = "user"
              /\ runs[r].messages[j].role = "assistant"

\* C6 (as claimed): the thread root a run posts under equals the root the
\* Trigger Filter and the History Adapter resolve: the event's thread_ts if
\* present, else its ts.
C6_PostsUnderEventRoot ==
    \A r \in 1..Len(runs) :
        runs[r].thread_ts # NoTs => runs[r].thread_ts = EventRoot(runs[r].ev)

\* C7 (as claimed): an event raised by the bot's own placeholder post,
\* placeholder delete or answer post never leads to a completion request.
C7_NoRequestOnOwnOutput ==
    \A r \in 1..Len(runs) :
        Count(runs[r].log, "request") > 0 => runs[r].ev.cause = "human"

\* C8: once the completion request of a run has failed, the run has stopped
\* for good: its placeholder is still in the channel, and it has deleted
\* nothing and posted nothing after the placeholder.
C8_FailedCompletionStrands ==
    \A r \in 1..Len(runs) :
        (runs[r].pc = "failed" /\ runs[r].failedAt = "await") =>
            /\ runs[r].log = <<"post_tmp", "request">>
            /\ Exists(chat, runs[r].tmp_ts)
            /\ MsgAt(chat, runs[r].tmp_ts).text = GENERATING
            /\ MsgAt(chat, runs[r].tmp_ts).user = BOT_NAME

\* C8 witness: a completion request has failed and the chat has moved on
\* since: a human posted after the stranded placeholder.
C8_Witness ==
    \E r \in 1..Len(runs) :
        /\ runs[r].pc = "failed" /\ runs[r].failedAt = "await"
        /\ \E i \in 1..Len(chat) :
              chat[i].ts > runs[r].tmp_ts /\ chat[i].user # BOT_NAME

Finished(r) == runs[r].pc \in {"returned", "failed"}

\* C9 (as claimed): every invocation that has passed the Trigger Filter has,
\* when it ends, performed exactly one placeholder post, one completion
\* request, one delete and one answer post.
C9_ExactlyOneEach ==
    \A r \in 1..Len(runs) :
        (runs[r].fired = "true" /\ Finished(r)) =>
            \A e \in {"post_tmp", "request", "delete", "say"} :
                Count(runs[r].log, e) = 1

\* C9 (amended): an invocation that has passed the Trigger Filter performs
\* at most one placeholder post, completion request, delete and answer post,
\* and exactly one of each when it returns, none of its calls having raised.
C9_AtMostOneEach ==
    \A r \in 1..Len(runs) :
        \A e \in {"post_tmp", "request", "delete", "say"} :
            /\ Count(runs[r].log, e) <= 1
            /\ (runs[r].fired = "true" /\ runs[r].pc = "returned")
                   => Count(runs[r].log, e) = 1

\* C9 witness: one triggered invocation has returned and another has ended
\* on an exception.
C9_Witness ==
    \E r1, r2 \in 1..Len(runs) :
        /\ runs[r1].fired = "true" /\ runs[r1].pc = "returned"
        /\ runs[r2].fired = "true" /\ runs[r2].pc = "failed"

\* C10: when the Trigger Filter returns false the handler returns at once:
\* the step changes neither the channel nor the completion requests, and
\* the run never posts, deletes or requests anything.
C10_NoEffectWhenFiltered ==
    /\ [](\A r \in 1..Len(runs) :
             runs[r].fired = "false" =>
                 /\ runs[r].pc = "returned"
                 /\ runs[r].log = <<>>
                 /\ runs[r].tmp_ts = NoTs
                 /\ r \notin {requests[i] : i \in 1..Len(requests)})
    /\ [][\A r \in 1..Len(runs) :
             (FilterReturns(r) /\ runs'[r].fired = "false") =>
                 (chat' = chat /\ requests' = requests)]_vars

\* C10 witness: the filter has returned false on the event of a bot message
\* that is the last message of a thread opened with a mention.
C10_Witness ==
    \E r \in 1..Len(runs) :
        /\ runs[r].fired = "false" /\ ~Edit(r)
        /\ Mentions(ThreadNow(r)[1].text)
        /\ ThreadNow(r)[Len(ThreadNow(r))].user = BOT_NAME

\* ------------------------------------------------ claims on delete_prefix
RECURSIVE LStrip(_)
LStrip(t) ==
    IF t # <<>> /\ Head(t) \in {" ", "\n"} THEN LStrip(Tail(t)) ELSE t

\* C11 (as claimed): the result of delete_prefix is the input with every
\* mention token removed and then only its leading spaces and newlines
\* removed; whitespace after other content is kept.
C11_OnlyLeadingStripped ==
    dp_pc = "done" => dp_message = LStrip(Replace(dp_input, BOT_MENTION))

\* C12 (as claimed): the result of delete_prefix contains no mention token
\* and starts with neither a space nor a newline.
C12_NoMentionNoLeadingBlank ==
    dp_pc = "done" =>
        /\ ~Mentions(dp_message)
        /\ ~StartsWith(dp_message, " ")
        /\ ~StartsWith(dp_message, "\n")

\* C13 (as claimed): delete_prefix applied to its own result returns that
\* result.
C13_Idempotent ==
    dp_pc = "done" => delete_prefix(dp_message) = dp_message

\* C18: delete_prefix terminates: every recursive call gets a string
\* strictly shorter than its caller's, a call whose string (mention removed)
\* starts with neither a space nor a newline returns without recursing, the
\* call returns, and its result is that of the recursive definition.
C18_Terminates ==
    /\ [][/\ dp_depth' # dp_depth =>
                 (dp_depth' = dp_depth + 1
                  /\ Len(dp_message') < Len(dp_message))
          /\ (/\ dp_pc = "call"
              /\ ~StartsWith(Unmentioned(dp_message), " ")
              /\ ~StartsWith(Unmentioned(dp_message), "\n"))
                 => (dp_pc' = "done" /\ dp_depth' = dp_depth)]_vars
    /\ [](dp_pc = "done" =>
             (dp_depth <= Len(dp_input)
              /\ dp_message = delete_prefix(dp_input)))
    /\ <>(dp_pc = "done")

\* C18 witness: a call has returned after recursing at least twice.
C18_Witness == dp_pc = "done" /\ dp_depth >= 2

\* ------------------------------------------------ claims on the handlers
Answered == {i \in 1..Len(chat) :
                chat[i].user = BOT_NAME /\ chat[i].text # GENERATING}

\* C14: the app_mention listener changes nothing, so one human message that
\* mentions the bot, delivered as a message event and as a mention event,
\* gets at most one completion request and one answer, and exactly one of
\* each once its message handler has returned.
C14_MentionHandlerNoOp ==
    /\ [][(\E ts \in mentions : ts \notin mentions') =>
             UNCHANGED <<chat, nextTs, posts, runs, requests, fails>>]_vars
    /\ [](posts = 1 =>
             /\ Len(requests) <= 1
             /\ Cardinality(Answered) <= 1
             /\ \A r \in 1..Len(runs) :
                   (/\ runs[r].ev.cause = "human"
                    /\ runs[r].ev.ts \notin mentions
                    /\ runs[r].fired = "true"
                    /\ runs[r].pc = "returned")
                       => (Len(requests) = 1 /\ Cardinality(Answered) = 1))

\* C14 witness: a mention post has had both its events handled and got its
\* answer.
C14_Witness ==
    /\ posts = 1 /\ mentions = {}
    /\ \E r \in 1..Len(runs) :
          /\ runs[r].ev.cause = "human" /\ runs[r].pc = "returned"
          /\ runs[r].fired = "true"
          /\ Mentions(chat[1].text)

\* What a run has done when the call at statement `at` raises.
LogBefore(at) ==
    CASE at \in {"start", "resolve", "post"} -> <<>>
      [] at = "create" -> <<"post_tmp">>
      [] at = "await" -> <<"post_tmp", "request">>
      [] at = "delete" -> <<"post_tmp", "request", "response">>
      [] at = "say" -> <<"post_tmp", "request", "response", "delete">>

\* C15: a chat platform call that raises ends the handler at that statement:
\* the run has performed the steps before it and none after, it never moves
\* again, and after a failed delete the placeholder is still in the channel
\* and no answer is posted.
C15_PlatformFailureAborts ==
    /\ [](\A r \in 1..Len(runs) :
             runs[r].failedAt \in PlatformSteps =>
                 /\ runs[r].pc = "failed"
                 /\ runs[r].log = LogBefore(runs[r].failedAt)
                 /\ runs[r].failedAt = "delete" =>
                        (/\ Exists(chat, runs[r].tmp_ts)
                         /\ chat[CHOOSE i \in 1..Len(chat) :
                                    chat[i].ts = runs[r].tmp_ts].text
                                = GENERATING))
    /\ [][\A r \in 1..Len(runs) :
             runs[r].pc = "failed" => runs'[r] = runs[r]]_vars

\* C15 witness: the delete of a placeholder has failed and the thread has
\* moved on since.
C15_Witness ==
    \E r \in 1..Len(runs) :
        /\ runs[r].pc = "failed" /\ runs[r].failedAt = "delete"
        /\ \E i \in 1..Len(chat) : chat[i].ts > runs[r].tmp_ts

\* C16 (as claimed): two handler runs for human messages of the same thread
\* never both have a completion request outstanding.
C16_OneInFlightPerThread ==
    \A r1, r2 \in 1..Len(runs) :
        (/\ r1 # r2
         /\ runs[r1].ev.cause = "human" /\ runs[r2].ev.cause = "human"
         /\ EventRoot(runs[r1].ev) = EventRoot(runs[r2].ev))
            => ~(runs[r1].pc = "await" /\ runs[r2].pc = "await")

\* C17: a message leaves the channel only in the delete step of the run
\* that posted it as its placeholder: never a human's message, never an
\* answer, never another run's placeholder.
C17_DeletesOnlyOwnPlaceholder ==
    [][\A i \in 1..Len(chat) :
          ~Exists(chat', chat[i].ts) =>
              /\ chat[i].user = BOT_NAME
              /\ chat[i].text = GENERATING
              /\ \E r \in 1..Len(runs) :
                    /\ runs[r].pc = "delete" /\ runs'[r].pc = "say"
                    /\ runs[r].tmp_ts = chat[i].ts
                    /\ Count(runs[r].log, "post_tmp") = 1
                    /\ \A q \in 1..Len(runs) :
                          q # r => runs[q].tmp_ts # chat[i].ts]_vars

\* C17 witness: one run has deleted its placeholder while the placeholder
\* of another run and the humans' messages are still in the channel.
C17_Witness ==
    \E r1, r2 \in 1..Len(runs) :
        /\ r1 # r2
        /\ Count(runs[r1].log, "delete") = 1
        /\ ~Exists(chat, runs[r1].tmp_ts)
        /\ runs[r2].tmp_ts # NoTs /\ Exists(chat, runs[r2].tmp_ts)
        /\ Cardinality({i \in 1..Len(chat) : chat[i].user # BOT_NAME}) = posts

====
